---- MODULE Spec2Model ----
(***************************************************************************)
(* Model of haxe_atomic (src/src/lib.rs): AtomicBool, AtomicInt and        *)
(* AtomicObject, a lock-free slot holding one owned reference to a         *)
(* reference-counted Python object.  The module is declared gil_used =     *)
(* false, so the methods of several threads interleave at the granularity  *)
(* of the atomic pointer operations and of the reference-count updates.    *)
(***************************************************************************)
EXTENDS Integers, Sequences, FiniteSets, TLC

(* ------------------------------ bounds -------------------------------- *)
\* threads that exist, and threads that call in an arbitrary interleaving
NThreads == 3
NCallers == 2
\* calls started in one behaviour (caps the reference-count drift)
MaxCalls == 3
\* references the callers let go of in one behaviour
MaxDrops == 1
\* calls on the primitive cells in one behaviour
MaxPrimCalls == 2

Thread == 1..NThreads
Caller == 1..NCallers

(* ------------------------- the Python objects -------------------------- *)
\* core::ptr::null_mut()
NULL == 0
\* the objects the callers pass around: 1 and 2 compare equal under ==, 3 and
\* 4 differ from them and from each other
Obj == {1, 2, 3, 4}
Val(o) == IF o \in {1, 2} THEN "a" ELSE IF o = 3 THEN "b" ELSE "c"
\* what a call hands back instead of an object
PANIC == -1
ERR == -2
NONE == -3

VARIABLES
    raises,     \* the objects whose __eq__ raises (fixed in a behaviour)
    slot,       \* AtomicObject.value: an object or NULL
    dropped,    \* the AtomicObject itself was destroyed
    rc,         \* ob_refcnt of every object
    freed,      \* objects whose count reached zero (deallocated)
    uaf,        \* a freed object's memory was touched
    crashed,    \* the process died on such an access
    held,       \* references the Python callers hold, per object
    ncalls,     \* calls started so far
    ndrops,     \* references the callers let go of so far
    pc,         \* where each thread is in its method
    arg,        \* a thread's call: op, e (expected), v (val/desired)
    loc,        \* the locals of the running method (see Locals)
    delta,      \* net change the call made to the count of its argument v
    result,     \* what the last finished call of a thread returned
    bval, ival, \* AtomicBool.inner, AtomicInt.inner
    pcalls,     \* primitive calls made so far
    pop         \* the last primitive call: what, arguments, value before, returned

objvars == <<raises, slot, dropped, rc, freed, uaf, crashed, held, ncalls, ndrops, pc, arg, loc,
             delta, result>>
primvars == <<bval, ival, pcalls, pop>>
vars == <<objvars, primvars>>

\* expected, val (desired in compare_exchange), ret, orig: the Bound locals,
\* NULL once moved out; raw: the raw pointer carried between two steps;
\* retried / swapped: the running compare_exchange had a failed / the
\* successful CAS
\* (a broken comparison: an error of __eq__ is swallowed)
HostEqSwallows(a, b) == IF Val(a) = Val(b) THEN "true" ELSE "false"

\* orig.eq(&expected): Python's rich comparison, "err" when __eq__ raises
HostEq(a, b) ==
    IF a \in raises \/ b \in raises THEN "err"
    ELSE IF Val(a) = Val(b) THEN "true" ELSE "false"

\* dptr: desired_ptr of compare_exchange
Locals == [expected |-> NULL, val |-> NULL, ret |-> NULL, orig |-> NULL,
           raw |-> NULL, dptr |-> NULL, retried |-> FALSE, swapped |-> FALSE]
NoArg == [op |-> "none", e |-> NULL, v |-> NULL]

(* ------------------------- reference counting -------------------------- *)
\* the counts as one value, so that a step can apply several updates
Heap == [rc |-> rc, freed |-> freed, hit |-> FALSE]

\* Py_IncRef, the clone of a Bound: on a freed object it writes freed memory
IncRef(h, o) ==
    [h EXCEPT !.rc[o] = @ + 1, !.hit = @ \/ o \in h.freed]

\* Py_DecRef, the drop of a Bound: null-safe, deallocates at zero
DecRef(h, o) ==
    IF o = NULL THEN h
    ELSE [rc |-> [h.rc EXCEPT ![o] = @ - 1],
          freed |-> IF h.rc[o] - 1 = 0 THEN h.freed \cup {o} ELSE h.freed,
          hit |-> h.hit \/ o \in h.freed]

\* the updates of one step take effect. Touching freed memory is undefined
\* behaviour: the stale count is updated in place, or the process dies
Commit(h) ==
    /\ rc' = h.rc
    /\ freed' = h.freed
    /\ uaf' = (uaf \/ h.hit)
    /\ crashed' \in (IF h.hit THEN BOOLEAN ELSE {FALSE})

\* what the updates h do to the count of o
Change(h, o) == IF o = NULL THEN 0 ELSE h.rc[o] - rc[o]

Running == ~crashed /\ ~dropped

\* thread t moves to label l with locals f
Goto(t, l, f) ==
    /\ pc' = [pc EXCEPT ![t] = l]
    /\ loc' = [loc EXCEPT ![t] = f]
    /\ UNCHANGED <<result, held>>

\* the method returns r: an owned reference, PANIC, ERR or (a hook) NONE; the
\* locals are gone (the pointer last swapped out or read stays on record)
Return(t, r) ==
    /\ result' = [result EXCEPT ![t] = r]
    /\ pc' = [pc EXCEPT ![t] = "done"]
    /\ loc' = [loc EXCEPT ![t] = [Locals EXCEPT !.raw = loc[t].raw,
                                                !.retried = loc[t].retried,
                                                !.swapped = loc[t].swapped]]
    /\ UNCHANGED held

\* a call of method op starts and reaches label l: Python passes arguments it
\* holds, pyo3 extracts each into a Bound of its own (part of the updates h)
Enter(t, op, l, e, v, h) ==
    /\ Running /\ pc[t] = "idle" /\ ncalls < MaxCalls
    /\ \A o \in {e, v} \ {NULL} : held[o] > 0
    /\ ncalls' = ncalls + 1
    /\ pc' = [pc EXCEPT ![t] = l]
    /\ arg' = [arg EXCEPT ![t] = [op |-> op, e |-> e, v |-> v]]
    /\ result' = [result EXCEPT ![t] = NONE]
    /\ delta' = [delta EXCEPT ![t] = Change(h, v)]
    /\ Commit(h)
    /\ UNCHANGED <<raises, dropped, held, ndrops, primvars>>

\* a step of a running method at label l, with the count updates h
Step(t, l, h) ==
    /\ Running /\ pc[t] = l
    /\ delta' = [delta EXCEPT ![t] = @ + Change(h, arg[t].v)]
    /\ Commit(h)
    /\ UNCHANGED <<raises, dropped, ncalls, ndrops, arg, primvars>>

(* --------------------------- AtomicObject ------------------------------ *)
\* load(&self, token): no object argument
\* self.value.load(SeqCst)
load_read(t) ==
    /\ Enter(t, "load", "load_inc", NULL, NULL, Heap)
    /\ loc' = [loc EXCEPT ![t] = [Locals EXCEPT !.raw = slot]]
    /\ UNCHANGED slot

\* Py::from_borrowed_ptr(token, ptr): panics on null, else a new reference
load_incref(t) ==
    LET p == loc[t].raw IN
    /\ Step(t, "load_inc", IF p = NULL THEN Heap ELSE IncRef(Heap, p))
    /\ Return(t, IF p = NULL THEN PANIC ELSE p)
    /\ UNCHANGED slot

\* store(&self, val: Bound<PyAny>)
\* let ret = val.clone()
store_clone(t) ==
    \E v \in Obj :
        /\ Enter(t, "store", "store_swap", NULL, v, IncRef(IncRef(Heap, v), v))
        /\ loc' = [loc EXCEPT ![t] = [Locals EXCEPT !.val = v, !.ret = v]]
        /\ UNCHANGED slot

\* (a broken store: the swap leaves the old pointer in the slot)
StoreKeepsOld(v, old) == old

\* the pointer store puts in the slot: val.into_ptr()
StoreInstalled(v, old) == v

\* let old = self.value.swap(val.into_ptr(), SeqCst)
store_swap(t) ==
    /\ Step(t, "store_swap", Heap)
    /\ slot' = StoreInstalled(loc[t].val, slot)
    /\ Goto(t, "store_dec", [loc[t] EXCEPT !.raw = slot, !.val = NULL])

\* (a broken store: it releases the clone it returns, not the old content)
StoreReleasesNew(old, ret_) == ret_

\* the pointer store releases: old
StoreReleased(old, ret_) == old

\* (a broken store: it hands back what it swapped out)
StoreHandsBackOld(ret_, old) == old

\* what store hands back: ret.unbind()
StoreHandsBack(ret_, old) == ret_

\* Py_DecRef(old); ret.unbind()
store_decref(t) ==
    /\ Step(t, "store_dec", DecRef(Heap, StoreReleased(loc[t].raw, loc[t].ret)))
    /\ Return(t, StoreHandsBack(loc[t].ret, loc[t].raw))
    /\ UNCHANGED slot

\* exchange(&self, val: Bound<PyAny>)
call_exchange(t) ==
    \E v \in Obj :
        /\ Enter(t, "exchange", "exch", NULL, v, IncRef(Heap, v))
        /\ loc' = [loc EXCEPT ![t] = [Locals EXCEPT !.val = v]]
        /\ UNCHANGED slot

\* (a broken exchange: it takes a reference of its own to what it installs)
ExchangeRetains(h, v, old) == IncRef(h, v)

\* the count updates of exchange's swap: none
ExchangeCounts(h, v, old) == h

\* let old_value = self.value.swap(val.into_ptr(), SeqCst)
exchange_swap(t) ==
    /\ Step(t, "exch", ExchangeCounts(Heap, loc[t].val, slot))
    /\ slot' = loc[t].val
    /\ Goto(t, "exch_ret", [loc[t] EXCEPT !.raw = slot, !.val = NULL])

\* what exchange hands back: the pointer it swapped out
ExchangeReturned(old, new) == old

\* Py::from_owned_ptr(token, old_value): panics on null
exchange_return(t) ==
    LET p == ExchangeReturned(loc[t].raw, arg[t].v) IN
    /\ Step(t, "exch_ret", Heap)
    /\ Return(t, IF p = NULL THEN PANIC ELSE p)
    /\ UNCHANGED slot

\* compare_exchange(&self, expected: Bound<PyAny>, desired: Bound<PyAny>)
call_compare_exchange(t) ==
    \E e \in Obj, d \in Obj :
        /\ Enter(t, "compare_exchange", "cx", e, d, IncRef(IncRef(Heap, e), d))
        /\ loc' = [loc EXCEPT ![t] = [Locals EXCEPT !.expected = e, !.val = d]]
        /\ UNCHANGED slot

\* self.load(py): self.value.load(SeqCst)
cx_load(t) ==
    /\ Step(t, "cx", Heap)
    /\ Goto(t, "cx_inc", [loc[t] EXCEPT !.raw = slot])
    /\ UNCHANGED slot

\* (a broken compare_exchange: desired is forgotten, not dropped)
DropLocalsLeak(h, f, keep) ==
    DecRef(DecRef(h, IF keep THEN NULL ELSE f.orig), f.expected)

\* what unwinding or an early return drops: orig (unless returned), desired
\* (unless moved out) and expected
DropLocals(h, f, keep) ==
    DecRef(DecRef(DecRef(h, IF keep THEN NULL ELSE f.orig), f.val), f.expected)

\* self.load(py): Py::from_borrowed_ptr panics on null, else a new reference
\* that becomes orig
cx_incref(t) ==
    LET p == loc[t].raw IN
    /\ UNCHANGED slot
    /\ IF p = NULL
       THEN /\ Step(t, "cx_inc", DropLocals(Heap, loc[t], FALSE))
            /\ Return(t, PANIC)
       ELSE /\ Step(t, "cx_inc", IncRef(Heap, p))
            /\ Goto(t, "cx_eq", [loc[t] EXCEPT !.orig = p])

\* while orig.eq(&expected)? ... Ok(orig.unbind())
cx_eq(t) ==
    LET r == HostEq(loc[t].orig, loc[t].expected) IN
    /\ UNCHANGED slot
    /\ IF r = "true"
       THEN /\ Step(t, "cx_eq", Heap)
            /\ Goto(t, "cx_cas", loc[t])
       ELSE /\ Step(t, "cx_eq", DropLocals(Heap, loc[t], r = "false"))
            /\ Return(t, IF r = "false" THEN loc[t].orig ELSE ERR)

\* (a broken CAS: it reports a failure whatever the slot holds)
CasNeverMatches(cur, snapshot) == FALSE

\* the comparison of AtomicPtr::compare_exchange: the identity of pointers
CasMatches(cur, snapshot) == cur = snapshot

\* desired.into_ptr(); self.value.compare_exchange(orig.as_ptr(), desired_ptr)
cx_cas(t) ==
    /\ Step(t, "cx_cas", Heap)
    /\ IF CasMatches(slot, loc[t].orig)
       THEN /\ slot' = loc[t].val
            /\ Goto(t, "cx_ok", [loc[t] EXCEPT !.raw = slot, !.val = NULL,
                                                !.swapped = TRUE])
       ELSE /\ slot' = slot
            /\ Goto(t, "cx_fail", [loc[t] EXCEPT !.raw = slot, !.val = NULL,
                                                  !.dptr = loc[t].val,
                                                  !.retried = TRUE])

\* Ok(orig) => return Ok(Py::from_owned_ptr(py, orig)); the Bound orig and
\* expected are dropped
cx_ok(t) ==
    /\ Step(t, "cx_ok", DropLocals(Heap, loc[t], FALSE))
    /\ Return(t, loc[t].raw)
    /\ UNCHANGED slot

\* (a broken retry: the snapshot of the first load is kept)
CasFailKeepsOrig(cur_val, orig) == orig

\* orig = Bound::from_borrowed_ptr(py, cur_val)
CasFailOrig(cur_val, orig) == cur_val

\* desired = Bound::from_owned_ptr(py, cur_val)
CasFailDesired(cur_val, desired_ptr) == cur_val

\* Err(cur_val) => orig = Bound::from_borrowed_ptr(py, cur_val) (panics on
\* null; the assignment drops the old orig); desired = ...
cx_fail(t) ==
    LET cur == loc[t].raw IN
    /\ UNCHANGED slot
    /\ IF cur = NULL
       THEN /\ Step(t, "cx_fail", DropLocals(Heap, loc[t], FALSE))
            /\ Return(t, PANIC)
       ELSE /\ Step(t, "cx_fail", DecRef(IncRef(Heap, cur), loc[t].orig))
            /\ Goto(t, "cx_eq", [loc[t] EXCEPT !.orig = CasFailOrig(cur, loc[t].orig),
                                                !.raw = NULL,
                                                !.val = CasFailDesired(cur, loc[t].dptr),
                                                !.dptr = NULL])

\* __traverse__(&self, visit), called by the collector:
\* self.value.load(SeqCst)
traverse_load(t) ==
    /\ Enter(t, "traverse", "trav_visit", NULL, NULL, Heap)
    /\ loc' = [loc EXCEPT ![t] = [Locals EXCEPT !.raw = slot]]
    /\ UNCHANGED slot

\* (a broken hook: it takes a reference to what it shows)
TraverseRetains(h, p) == IF p = NULL THEN h ELSE IncRef(h, p)

\* the count updates of the hook: none (ManuallyDrop of from_owned_ptr_or_opt)
TraverseCounts(h, p) == h

\* visit.call(&*object): the collector reads the header of the object it is
\* shown (raw stays on record), no new reference; nothing is shown for null
traverse_visit(t) ==
    /\ Step(t, "trav_visit", [TraverseCounts(Heap, loc[t].raw) EXCEPT
                                  !.hit = @ \/ loc[t].raw \in freed])
    /\ Return(t, NONE)
    /\ UNCHANGED slot

\* (a broken __clear__: the pointer stays in the slot)
ClearKeeps(old) == old

\* what __clear__ leaves in the slot: core::ptr::null_mut()
ClearInstalled(old) == NULL

\* (a broken __clear__: the pointer swapped out is forgotten)
ClearReleasesNothing(ptr) == NULL

\* what __clear__ releases: ptr
ClearReleased(ptr) == ptr

\* __clear__(&self), called by the collector:
\* let ptr = self.value.swap(null_mut(), SeqCst)
clear_swap(t) ==
    /\ Enter(t, "clear", "clear_dec", NULL, NULL, Heap)
    /\ loc' = [loc EXCEPT ![t] = [Locals EXCEPT !.raw = slot]]
    /\ slot' = ClearInstalled(slot)

\* Py_DecRef(ptr)
clear_decref(t) ==
    /\ Step(t, "clear_dec", DecRef(Heap, ClearReleased(loc[t].raw)))
    /\ Return(t, NONE)
    /\ UNCHANGED slot

\* impl Drop: self.__clear__() with exclusive access, no call is running
drop ==
    /\ Running /\ \A t \in Thread : pc[t] = "idle"
    /\ slot' = ClearInstalled(slot)
    /\ Commit(DecRef(Heap, ClearReleased(slot)))
    /\ dropped' = TRUE
    /\ UNCHANGED <<raises, held, ncalls, ndrops, pc, arg, loc, delta, result, primvars>>

(* ------------------------------ callers -------------------------------- *)
\* Python takes what the call returned: a returned reference is now the
\* caller's
finish(t) ==
    /\ ~crashed /\ pc[t] = "done"
    /\ pc' = [pc EXCEPT ![t] = "idle"]
    /\ held' = IF result[t] \in Obj THEN [held EXCEPT ![result[t]] = @ + 1] ELSE held
    /\ result' = [result EXCEPT ![t] = NONE]
    /\ arg' = [arg EXCEPT ![t] = NoArg]
    /\ loc' = [loc EXCEPT ![t] = Locals]
    /\ delta' = [delta EXCEPT ![t] = 0]
    /\ UNCHANGED <<raises, slot, dropped, rc, freed, uaf, crashed, ncalls, ndrops,
                   primvars>>

\* object o is an argument of a running call
InUse(o) == \E t \in Thread : pc[t] # "idle" /\ o \in {arg[t].e, arg[t].v}

\* a caller lets go of a reference it holds (not the one a running call of
\* its own was given)
Release(o, max) ==
    /\ ~crashed
    /\ ndrops < max
    /\ held[o] > (IF InUse(o) THEN 1 ELSE 0)
    /\ ndrops' = ndrops + 1
    /\ held' = [held EXCEPT ![o] = @ - 1]
    /\ Commit(DecRef(Heap, o))
    /\ UNCHANGED <<raises, slot, dropped, ncalls, pc, arg, loc, delta, result, primvars>>

DropHandle(o) == Release(o, MaxDrops)

(* ----------------------- AtomicBool and AtomicInt ----------------------- *)
\* AtomicI32: the width of the cell. An i32 is kept as the integer it denotes
\* and computed with in two halves of 16 bits, so that no intermediate value
\* leaves the 32 bits
IntBits == 32
Half == 2 ^ (IntBits \div 2)
MinInt == (0 - (Half \div 2)) * Half
MaxInt == ((Half \div 2) - 1) * Half + (Half - 1)
\* the high and the low 16 bits of an i32
Hi(x) == (x \div Half) % Half
Lo(x) == x % Half
\* the i32 whose bits are hi and lo
FromHalves(hi, lo) == (IF hi >= Half \div 2 THEN hi - Half ELSE hi) * Half + lo
\* (a broken fetch_add: the sum saturates at the ends of the range)
Add32Saturates(a, b) ==
    IF b > 0 /\ a > MaxInt - b THEN MaxInt
    ELSE IF b < 0 /\ a < MinInt - b THEN MinInt
    ELSE a + b

\* wrapping_add, wrapping_sub
Add32(a, b) ==
    LET lo == Lo(a) + Lo(b)
    IN FromHalves((Hi(a) + Hi(b) + lo \div Half) % Half, lo % Half)
Sub32(a, b) ==
    LET lo == Lo(a) - Lo(b)
    IN FromHalves((Hi(a) - Hi(b) - (IF lo < 0 THEN 1 ELSE 0)) % Half, lo % Half)

RECURSIVE Bitwise(_, _, _, _)
Bitwise(op, a, b, n) ==
    IF n = 0 THEN 0
    ELSE LET x == a % 2
             y == b % 2
             r == IF op = "and" THEN x * y
                  ELSE IF op = "or" THEN (IF x + y > 0 THEN 1 ELSE 0)
                  ELSE (x + y) % 2
         IN r + 2 * Bitwise(op, a \div 2, b \div 2, n - 1)

\* &, |, ^ on i32
Bits32(op, a, b) ==
    FromHalves(Bitwise(op, Hi(a), Hi(b), IntBits \div 2),
               Bitwise(op, Lo(a), Lo(b), IntBits \div 2))

\* the values the callers pass to an AtomicInt
IntIn == {MinInt, -1, 0, 1, 5, 6, 10, MaxInt}

NoCall == [cell |-> "none", op |-> "none", a |-> 0, b |-> 0, before |-> 0, ret |-> 0]

\* a primitive call is one atomic instruction: the cell's new value and what
\* the method returns
PrimCall(cell, op, a, b, new, r) ==
    /\ pcalls' = pcalls + 1
    /\ IF cell = "bool" THEN bval' = new /\ ival' = ival
                        ELSE ival' = new /\ bval' = bval
    /\ pop' = [cell |-> cell, op |-> op, a |-> a, b |-> b,
               before |-> IF cell = "bool" THEN bval ELSE ival, ret |-> r]
    /\ UNCHANGED objvars

\* inner.compare_exchange(current, new, SeqCst, SeqCst): the value stored
CasStored(x, current, new) == IF x = current THEN new ELSE x
\* (a broken compare_exchange: it returns what the cell holds afterwards)
CasReturnsStored(x, current, new) == IF x = current THEN new ELSE x

\* inner.compare_exchange(..): Ok(previous) or Err(actual), and the match
\* returns v in both arms
CasReturned(x, current, new) == x

\* inner.swap(val, SeqCst)
SwapReturned(x, v) == x
\* inner.store(val, SeqCst); val
StoreReturned(x, v) == v

\* a caller may make another primitive call
CanCall == pcalls < MaxPrimCalls

bool_load ==
    /\ CanCall
    /\ PrimCall("bool", "load", FALSE, FALSE, bval, bval)
bool_store ==
    /\ CanCall
    /\ \E v \in BOOLEAN : PrimCall("bool", "store", v, FALSE, v, StoreReturned(bval, v))
bool_exchange ==
    /\ CanCall
    /\ \E v \in BOOLEAN : PrimCall("bool", "exchange", v, FALSE, v, SwapReturned(bval, v))
bool_compare_exchange ==
    /\ CanCall
    /\ \E c \in BOOLEAN, n \in BOOLEAN :
           PrimCall("bool", "compare_exchange", c, n,
                    CasStored(bval, c, n), CasReturned(bval, c, n))

int_load ==
    /\ CanCall
    /\ PrimCall("int", "load", 0, 0, ival, ival)
int_store ==
    /\ CanCall
    /\ \E v \in IntIn : PrimCall("int", "store", v, 0, v, StoreReturned(ival, v))
int_exchange ==
    /\ CanCall
    /\ \E v \in IntIn : PrimCall("int", "exchange", v, 0, v, SwapReturned(ival, v))
int_compare_exchange ==
    /\ CanCall
    /\ \E c \in IntIn, n \in IntIn :
           PrimCall("int", "compare_exchange", c, n,
                    CasStored(ival, c, n), CasReturned(ival, c, n))

\* inner.fetch_add / fetch_sub / fetch_and / fetch_or / fetch_xor: the value
\* stored
Combine(op, x, v) ==
    IF op = "fetch_add" THEN Add32(x, v)
    ELSE IF op = "fetch_sub" THEN Sub32(x, v)
    ELSE Bits32(IF op = "fetch_and" THEN "and"
                ELSE IF op = "fetch_or" THEN "or" ELSE "xor", x, v)
\* ... and the value returned: the previous one
FetchReturned(x, v) == x

Fetch(op) ==
    \E v \in IntIn : PrimCall("int", op, v, 0, Combine(op, ival, v), FetchReturned(ival, v))

fetch_add == CanCall /\ Fetch("fetch_add")
fetch_sub == CanCall /\ Fetch("fetch_sub")
fetch_and == CanCall /\ Fetch("fetch_and")
fetch_or == CanCall /\ Fetch("fetch_or")
fetch_xor == CanCall /\ Fetch("fetch_xor")

(* ---------------------------- specification ---------------------------- *)
\* AtomicObject::new(val): the slot takes the reference pyo3 extracted; the
\* callers hold one reference to every object
InitSlot ==
    /\ slot = 1
    /\ dropped = FALSE
    /\ held = [o \in Obj |-> 1]
    /\ rc = [o \in Obj |-> IF o = 1 THEN 2 ELSE 1]
    /\ freed = {}
    /\ uaf = FALSE
    /\ crashed = FALSE
    /\ ncalls = 0
    /\ ndrops = 0
    /\ pc = [t \in Thread |-> "idle"]
    /\ arg = [t \in Thread |-> NoArg]
    /\ loc = [t \in Thread |-> Locals]
    /\ delta = [t \in Thread |-> 0]
    /\ result = [t \in Thread |-> NONE]

\* object 4 has an __eq__ that raises
InitObj == raises = {4} /\ InitSlot

\* the primitive cells are not under test
InitPrim ==
    /\ bval = FALSE
    /\ ival = 0
    /\ pcalls = 0
    /\ pop = NoCall

\* AtomicBool::new(val), AtomicInt::new(val)
InitPrimAny ==
    /\ bval \in BOOLEAN
    /\ ival \in IntIn
    /\ pcalls = 0
    /\ pop = NoCall

Init == InitObj /\ InitPrim

ObjStep(t) ==
    \/ load_read(t) \/ load_incref(t)
    \/ store_clone(t) \/ store_swap(t) \/ store_decref(t)
    \/ call_exchange(t) \/ exchange_swap(t) \/ exchange_return(t)
    \/ call_compare_exchange(t) \/ cx_load(t) \/ cx_incref(t) \/ cx_eq(t)
    \/ cx_cas(t) \/ cx_ok(t) \/ cx_fail(t)
    \/ traverse_load(t) \/ traverse_visit(t)
    \/ clear_swap(t) \/ clear_decref(t)
    \/ finish(t)

Next ==
    \/ \E t \in Caller : ObjStep(t)
    \/ drop
    \/ \E o \in Obj : DropHandle(o)

\* any interleaving of the threads' steps
Spec == Init /\ [][Next]_vars

\* the public methods only (the collector's hooks and the destructor do not
\* run): load, store, exchange, compare_exchange in any interleaving
UserStep(t) ==
    \/ load_read(t) \/ load_incref(t)
    \/ store_clone(t) \/ store_swap(t) \/ store_decref(t)
    \/ call_exchange(t) \/ exchange_swap(t) \/ exchange_return(t)
    \/ call_compare_exchange(t) \/ cx_load(t) \/ cx_incref(t) \/ cx_eq(t)
    \/ cx_cas(t) \/ cx_ok(t) \/ cx_fail(t)
    \/ finish(t)

NextUser ==
    \/ \E t \in Caller : UserStep(t)
    \/ \E o \in Obj : DropHandle(o)

SpecUser == Init /\ [][NextUser]_vars

\* thread t is the only one inside a method
Alone(t) == \A u \in Thread \ {t} : pc[u] = "idle"

\* the steps that can happen when no two calls overlap (a CAS then never fails)
SeqStep(t) ==
    \/ Alone(t) /\ load_read(t)
    \/ Alone(t) /\ load_incref(t)
    \/ Alone(t) /\ store_clone(t)
    \/ Alone(t) /\ store_swap(t)
    \/ Alone(t) /\ store_decref(t)
    \/ Alone(t) /\ call_exchange(t)
    \/ Alone(t) /\ exchange_swap(t)
    \/ Alone(t) /\ exchange_return(t)
    \/ Alone(t) /\ call_compare_exchange(t)
    \/ Alone(t) /\ cx_load(t)
    \/ Alone(t) /\ cx_incref(t)
    \/ Alone(t) /\ cx_eq(t)
    \/ Alone(t) /\ cx_cas(t)
    \/ Alone(t) /\ cx_ok(t)
    \/ Alone(t) /\ traverse_load(t)
    \/ Alone(t) /\ traverse_visit(t)
    \/ Alone(t) /\ clear_swap(t)
    \/ Alone(t) /\ clear_decref(t)
    \/ Alone(t) /\ finish(t)

NextSeq ==
    \/ \E t \in Caller : SeqStep(t)
    \/ drop
    \/ \E o \in Obj : DropHandle(o)

\* the operations executed one at a time
SpecSeq == Init /\ [][NextSeq]_vars

(* ------------------------- ownership accounting ------------------------ *)
\* the labels at which raw carries a reference taken out of the slot
OwningRaw == {"store_dec", "exch_ret", "cx_ok", "clear_dec"}

\* the owned handles thread t holds in its locals
LocalHandles(t, o) ==
    Cardinality({f \in {"expected", "val", "ret", "orig", "dptr"} : loc[t][f] = o})
    + (IF loc[t].raw = o /\ pc[t] \in OwningRaw THEN 1 ELSE 0)
    + (IF result[t] = o /\ pc[t] = "done" THEN 1 ELSE 0)

RECURSIVE SumLocal(_, _)
SumLocal(T, o) ==
    IF T = {} THEN 0
    ELSE LET t == CHOOSE x \in T : TRUE IN LocalHandles(t, o) + SumLocal(T \ {t}, o)

\* the owned handles to o: the slot's, the callers', the running methods'
Handles(o) == (IF slot = o THEN 1 ELSE 0) + held[o] + SumLocal(Thread, o)

(* -------------------------------- C1 ----------------------------------- *)
\* C1: when the operations do not overlap, in every state the reference count
\* of every object equals the number of owned handles to it (the slot's, the
\* callers' and those of the running method), an object is deallocated exactly
\* when that number is zero, and no freed object is ever touched: nothing is
\* leaked, nothing is released twice.
C1_Conservation ==
    /\ \A o \in Obj : rc[o] = Handles(o) /\ (o \in freed <=> rc[o] = 0)
    /\ ~uaf

\* three calls have run to the end, the slot was replaced and the object it
\* held at construction has been released to zero
C1_Witness ==
    /\ ncalls = MaxCalls /\ \A t \in Thread : pc[t] = "idle"
    /\ slot \in Obj \ {1} /\ 1 \in freed

(* -------------------------------- C2 ----------------------------------- *)
CxRetry == {"cx_eq", "cx_cas"}

\* C2: after a failed CAS attempt the compare_exchange call still owns the
\* desired object it was given; that object is what the next attempt offers.
C2_DesiredKept ==
    \A t \in Thread :
        (arg[t].op = "compare_exchange" /\ loc[t].retried /\ pc[t] \in CxRetry)
            => loc[t].val = arg[t].v

(* -------------------------------- C3 ----------------------------------- *)
CxLabels == {"cx", "cx_inc", "cx_eq", "cx_cas", "cx_ok", "cx_fail"}

\* C3: a CAS of compare_exchange that swaps installs the caller's desired and
\* takes out the prior content, which equals expected under host equality;
\* every other step of the call leaves the slot as it is.
C3_SwapInstallsDesired ==
    [][\A t \in Thread :
        /\ (pc[t] = "cx_cas" /\ pc'[t] = "cx_ok")
              => /\ slot' = arg[t].v
                 /\ loc'[t].raw = slot
                 /\ HostEq(slot, arg[t].e) = "true"
        /\ (pc[t] \in CxLabels /\ pc'[t] # pc[t] /\ pc'[t] # "cx_ok")
              => slot' = slot]_vars

(* -------------------------------- C4 ----------------------------------- *)
\* C4: the object whose pointer load has read is alive when load increments
\* its count.
C4_LoadTargetAlive ==
    \A t \in Thread :
        (pc[t] = "load_inc" /\ loc[t].raw # NULL)
            => (loc[t].raw \notin freed /\ rc[loc[t].raw] >= 1)

(* -------------------------------- C5 ----------------------------------- *)
\* C5 (I1): the slot is empty or points to a live object whose count includes
\* the slot's reference exactly once: the count equals the number of owned
\* handles, the slot's among them.
C5_SlotOwned ==
    slot # NULL => (slot \notin freed /\ rc[slot] = Handles(slot))

(* -------------------------------- C7 ----------------------------------- *)
\* thread t's compare_exchange has returned an object without attempting a
\* CAS: its one equality check found the content different from expected
CxMismatch(t) ==
    /\ pc[t] = "done" /\ arg[t].op = "compare_exchange"
    /\ ~loc[t].retried /\ ~loc[t].swapped /\ result[t] \in Obj

\* C7 as stated: after such a call the count of desired is what it was before
\* the call.
C7_DesiredCountKept ==
    \A t \in Thread : CxMismatch(t) => delta[t] = 0

\* C7 amended: after such a call the count of desired is what it was before
\* the call, plus the one reference handed back when the returned content is
\* desired itself; and no step of the call has written the slot.
C7_DesiredReturned ==
    /\ [](\A t \in Thread :
            CxMismatch(t) => delta[t] = (IF result[t] = arg[t].v THEN 1 ELSE 0))
    /\ [][\A t \in Thread :
            (pc[t] \in {"cx", "cx_inc", "cx_eq"} /\ pc'[t] # pc[t]) => slot' = slot]_vars

\* a mismatch was returned and desired is another object than the content
C7_Witness ==
    \E t \in Thread : CxMismatch(t) /\ result[t] # arg[t].v /\ slot = result[t]

(* -------------------------------- C10 ---------------------------------- *)
\* C10: the swap of exchange puts the caller's new object in the slot and
\* takes out the prior content, its return hands exactly that content back (a
\* panic when the slot was empty), and neither step changes any count.
C10_ExchangeHandOff ==
    [][\A t \in Thread :
        /\ (pc[t] = "exch" /\ pc'[t] = "exch_ret")
              => (slot' = arg[t].v /\ loc'[t].raw = slot /\ rc' = rc)
        /\ (pc[t] = "exch_ret" /\ pc'[t] = "done")
              => /\ rc' = rc
                 /\ result'[t] = (IF loc[t].raw = NULL THEN PANIC ELSE loc[t].raw)]_vars

\* an exchange has returned the object it swapped out
C10_Witness ==
    \E t \in Thread :
        /\ pc[t] = "done" /\ arg[t].op = "exchange"
        /\ result[t] \in Obj /\ result[t] # arg[t].v /\ slot = arg[t].v

(* -------------------------------- C6 ----------------------------------- *)
\* references the callers of the race let go of
MaxRaceDrops == 2

\* the slot holds old (object 1); no __eq__ raises
InitRace == raises = {} /\ InitSlot /\ InitPrim

\* old as the callers name it (1, or its equal 2), and the new_i
RaceOld == {1, 2}
RaceNew == {3, 4}

\* compare_exchange(old, new_i)
race_call(t) ==
    /\ call_compare_exchange(t)
    /\ arg'[t].e \in RaceOld
    /\ arg'[t].v \in RaceNew

RaceStep(t) ==
    \/ race_call(t) \/ cx_load(t) \/ cx_incref(t) \/ cx_eq(t)
    \/ cx_cas(t) \/ cx_ok(t) \/ cx_fail(t)
    \/ finish(t)

NextRace ==
    \/ \E t \in Thread : RaceStep(t)
    \/ \E o \in Obj : Release(o, MaxRaceDrops)

\* NThreads threads race compare_exchange(old, new_i); the callers take what
\* is returned and let go of references as they please
SpecRace == InitRace /\ [][NextRace]_vars

\* C6 (P3): in the race a call that swapped returns old, every other call
\* returns the winner's new_i, which is what the slot holds from then on, and
\* these are objects: neither the slot's content nor a returned object has
\* been deallocated, and no call touched a deallocated object.
C6_RaceOutcome ==
    /\ ~uaf
    /\ slot \in {1} \cup RaceNew /\ slot \notin freed
    /\ \A t \in Thread :
          pc[t] = "done" =>
              /\ result[t] \in Obj \ freed
              /\ result[t] = (IF loc[t].swapped THEN 1 ELSE slot)
              /\ slot \in RaceNew

(* --------------------- the primitive cells on their own ---------------- *)
NextPrim ==
    \/ bool_load \/ bool_store \/ bool_exchange \/ bool_compare_exchange
    \/ int_load \/ int_store \/ int_exchange \/ int_compare_exchange
    \/ fetch_add \/ fetch_sub \/ fetch_and \/ fetch_or \/ fetch_xor

InitCells == InitObj /\ InitPrimAny

SpecPrim == InitCells /\ [][NextPrim]_vars

\* the value the cell of the last primitive call holds now
Stored == IF pop.cell = "bool" THEN bval ELSE ival

ObjOnly == pcalls = 0
PrimOnly == ncalls = 0

SXStep(t) ==
    \/ ObjOnly /\ store_clone(t)
    \/ ObjOnly /\ store_swap(t)
    \/ ObjOnly /\ store_decref(t)
    \/ ObjOnly /\ call_exchange(t)
    \/ ObjOnly /\ exchange_swap(t)
    \/ ObjOnly /\ exchange_return(t)

NextSX ==
    \/ \E t \in Thread : SXStep(t)
    \/ PrimOnly /\ bool_store
    \/ PrimOnly /\ bool_exchange
    \/ PrimOnly /\ int_store
    \/ PrimOnly /\ int_exchange

SpecSX == Init /\ [][NextSX]_vars

\* the threads whose swap has taken effect
Swapped == {t \in Thread : pc[t] \in {"store_dec", "exch_ret", "done"}}

\* the orders in which the threads of T can have swapped
Orders(T) ==
    {s \in [1..Cardinality(T) -> T] : \A i, j \in DOMAIN s : s[i] = s[j] => i = j}

\* s is an order of swaps that explains what each swap took out: the first
\* took out the initial content, each later one the argument of the one
\* before, and the slot holds the argument of the last
Explains(s) ==
    LET n == Len(s) IN
    /\ slot = (IF n = 0 THEN 1 ELSE arg[s[n]].v)
    /\ \A i \in 1..n : loc[s[i]].raw = (IF i = 1 THEN 1 ELSE arg[s[i - 1]].v)

\* C9 (P1): in every state of concurrent store and exchange calls the swaps
\* that took effect form one order in which each swap replaced the argument
\* of the swap before it and the cell holds the argument of the last one;
\* every exchange that has returned returned exactly what its swap replaced;
\* on AtomicBool and AtomicInt a store or exchange leaves its argument in the
\* cell and an exchange returns the value it replaced.
C9_NoLostUpdate ==
    /\ \E s \in Orders(Swapped) : Explains(s)
    /\ \A t \in Thread :
          (pc[t] = "done" /\ arg[t].op = "exchange") => result[t] = loc[t].raw
    /\ pop.op \in {"store", "exchange"} => Stored = pop.a
    /\ pop.op = "exchange" => pop.ret = pop.before

\* three calls, stores and exchanges among them, with three different
\* arguments have all returned
C9_Witness ==
    /\ \A t \in Thread : pc[t] = "done"
    /\ \E t, u \in Thread : arg[t].op = "store" /\ arg[u].op = "exchange"
    /\ Cardinality({arg[t].v : t \in Thread}) = NThreads

(* -------------------------------- C11 ---------------------------------- *)
\* the counts with one reference of o (if any) released
Less(o) == IF o = NULL THEN rc ELSE [rc EXCEPT ![o] = @ - 1]

\* C11: store(new) takes two references to new (the argument's and the
\* clone's) and touches no other count; its swap puts new in the slot, takes
\* out the prior content and changes no count; only the step after the swap
\* releases exactly one reference of the content swapped out, changes no other
\* count, leaves the slot alone and returns new.
C11_StoreHandsOver ==
    [][\A t \in Thread :
        /\ (pc[t] = "idle" /\ pc'[t] = "store_swap")
              => /\ rc' = [rc EXCEPT ![arg'[t].v] = @ + 2]
                 /\ slot' = slot
        /\ (pc[t] = "store_swap" /\ pc'[t] = "store_dec")
              => (slot' = arg[t].v /\ loc'[t].raw = slot /\ rc' = rc)
        /\ (pc[t] = "store_dec" /\ pc'[t] = "done")
              => /\ result'[t] = arg[t].v
                 /\ slot' = slot
                 /\ rc' = Less(loc[t].raw)]_vars

\* a store has returned its argument, which the slot holds, having released
\* another object
C11_Witness ==
    \E t \in Thread :
        /\ pc[t] = "done" /\ arg[t].op = "store"
        /\ result[t] = arg[t].v /\ slot = arg[t].v
        /\ loc[t].raw \in Obj \ {arg[t].v}

(* -------------------------------- C12 ---------------------------------- *)
\* C12 (P6): the swap of __clear__ empties the slot and changes no count, its
\* second step releases exactly one reference of the object swapped out and
\* nothing when the slot was already empty; so a second __clear__ in
\* succession changes neither the slot nor any count.
C12_ClearIdempotent ==
    [][\A t \in Thread :
        /\ (pc[t] = "idle" /\ pc'[t] = "clear_dec")
              => (slot' = NULL /\ loc'[t].raw = slot /\ rc' = rc /\ freed' = freed)
        /\ (pc[t] = "clear_dec" /\ pc'[t] = "done")
              => /\ slot' = slot
                 /\ rc' = Less(loc[t].raw)
                 /\ (loc[t].raw = NULL => freed' = freed)]_vars

\* a __clear__ that found the slot empty has returned
C12_Witness ==
    \E t \in Thread :
        /\ pc[t] = "done" /\ arg[t].op = "clear"
        /\ loc[t].raw = NULL /\ slot = NULL /\ ncalls >= 2

(* -------------------------------- C13 ---------------------------------- *)
\* C13: the destructor releases exactly one reference of the object the slot
\* holds and none when the slot is empty (after __clear__), and empties the
\* slot; when the operations did not overlap, after it every count equals the
\* number of owned handles left and nothing freed was touched.
C13_DropReleasesOnce ==
    /\ [][(~dropped /\ dropped') => (slot' = NULL /\ rc' = Less(slot))]_vars
    /\ [](dropped => (slot = NULL /\ ~uaf /\ \A o \in Obj : rc[o] = Handles(o)))

\* the destructor ran on an emptied slot after calls, and the object held at
\* construction was released to zero
C13_Witness ==
    dropped /\ slot = NULL /\ 1 \in freed /\ ncalls >= 1

(* -------------------------------- C14 ---------------------------------- *)
\* C14: the read of __traverse__ takes the slot's content at that instant,
\* the visit shows exactly that pointer (nothing when null), and neither step
\* changes the slot, any count or the set of deallocated objects, whatever
\* the other threads do in between.
C14_TraverseFrame ==
    [][\A t \in Thread :
        /\ (pc[t] = "idle" /\ pc'[t] = "trav_visit")
              => (loc'[t].raw = slot /\ slot' = slot /\ rc' = rc /\ freed' = freed)
        /\ (pc[t] = "trav_visit" /\ pc'[t] = "done")
              => /\ loc'[t].raw = loc[t].raw
                 /\ slot' = slot /\ rc' = rc /\ freed' = freed]_vars

\* a traversal has shown an object that another thread replaced in the
\* meantime
C14_Witness ==
    \E t \in Thread :
        /\ pc[t] = "done" /\ arg[t].op = "traverse"
        /\ loc[t].raw \in Obj /\ slot \in Obj \ {loc[t].raw}

(* -------------------------------- C15 ---------------------------------- *)
\* C15: when the comparison of compare_exchange meets an __eq__ that raises,
\* on the first check or after a failed CAS, that step ends the call with the
\* error and leaves the slot alone; a call that returned an error never
\* swapped.
C15_EqErrorPropagates ==
    /\ [][\A t \in Thread :
            (pc[t] = "cx_eq" /\ pc'[t] # "cx_eq"
                /\ (loc[t].orig \in raises \/ loc[t].expected \in raises))
              => (pc'[t] = "done" /\ result'[t] = ERR /\ slot' = slot)]_vars
    /\ [](\A t \in Thread : result[t] = ERR => ~loc[t].swapped)

\* the re-check after a failed CAS raised
C15_Witness ==
    \E t \in Thread :
        /\ pc[t] = "done" /\ arg[t].op = "compare_exchange"
        /\ result[t] = ERR /\ loc[t].retried

(* -------------------------------- C16 ---------------------------------- *)
\* x + y reduced modulo 2^32 into the i32 range, by cases on the overflow
\* (2^32 taken off or added as two halves)
WrapSum(x, y) ==
    IF y > 0 /\ x > MaxInt - y THEN (x + MinInt) + (y + MinInt)
    ELSE IF y < 0 /\ x < MinInt - y THEN (x - MinInt) + (y - MinInt)
    ELSE x + y

\* x - y reduced modulo 2^32 into the i32 range
WrapDiff(x, y) ==
    IF y < 0 /\ x > MaxInt + y THEN (x + MinInt) - (y - MinInt)
    ELSE IF y > 0 /\ x < MinInt + y THEN (x - MinInt) - (y + MinInt)
    ELSE x - y

\* bit i of the two's-complement form of x (bit 31 is the sign)
Bit(x, i) == IF i = IntBits - 1 THEN (IF x < 0 THEN 1 ELSE 0) ELSE (x \div 2 ^ i) % 2

\* r is a op b bit by bit
BitsAre(r, op, a, b) ==
    \A i \in 0..(IntBits - 1) :
        Bit(r, i) = (IF op = "fetch_and" THEN Bit(a, i) * Bit(b, i)
                     ELSE IF op = "fetch_or" THEN Bit(a, i) + Bit(b, i) - Bit(a, i) * Bit(b, i)
                     ELSE (Bit(a, i) + Bit(b, i)) % 2)

FetchOps == {"fetch_add", "fetch_sub", "fetch_and", "fetch_or", "fetch_xor"}

\* C16: every fetch operation of AtomicInt returns the value held immediately
\* before it and leaves in the cell the operator's result in 32-bit two's
\* complement: the sum or difference modulo 2^32, the bitwise and / or / xor.
\* (By induction over the calls, N fetch_add(k) leave initial + N*k wrapped.)
C16_FetchCombines ==
    pop.op \in FetchOps =>
        /\ pop.ret = pop.before
        /\ ival \in MinInt..MaxInt
        /\ pop.op = "fetch_add" => ival = WrapSum(pop.before, pop.a)
        /\ pop.op = "fetch_sub" => ival = WrapDiff(pop.before, pop.a)
        /\ pop.op \in {"fetch_and", "fetch_or", "fetch_xor"}
              => BitsAre(ival, pop.op, pop.before, pop.a)

\* a fetch_add that wrapped: the largest value plus one is the smallest
C16_Witness ==
    /\ pop.op = "fetch_add" /\ pop.before = MaxInt /\ pop.a = 1
    /\ pop.ret = MaxInt /\ ival = MinInt

(* -------------------------------- C17 ---------------------------------- *)
\* the steps of a running compare_exchange of thread t
CxRun(t) ==
    \/ cx_load(t) \/ cx_incref(t) \/ cx_eq(t) \/ cx_cas(t) \/ cx_ok(t) \/ cx_fail(t)

\* the thread that calls compare_exchange; the other callers store
CxThread == CHOOSE t \in Caller : \A u \in Caller : t <= u

LiveStep(t) ==
    \/ t = CxThread /\ call_compare_exchange(t)
    \/ cx_load(t) \/ cx_incref(t) \/ cx_eq(t)
    \/ cx_cas(t) \/ cx_ok(t) \/ cx_fail(t)
    \/ t # CxThread /\ store_clone(t)
    \/ store_swap(t) \/ store_decref(t)
    \/ finish(t)

NextLive ==
    \/ \E t \in Caller : LiveStep(t)
    \/ \E o \in Obj : DropHandle(o)

\* one thread calls compare_exchange while the others store (the mutations of
\* the slot, MaxCalls calls in all) under a fair scheduler: a thread inside
\* compare_exchange is not suspended forever
SpecLive ==
    Init /\ [][NextLive]_vars /\ \A t \in Caller : WF_vars(CxRun(t))

\* C17: a CAS of compare_exchange fails only when the slot no longer holds
\* the pointer the call last observed, and every compare_exchange call
\* eventually returns (unless the process has died on an access to a
\* deallocated object).
C17_CxTerminates ==
    /\ [][\A t \in Thread :
            (pc[t] = "cx_cas" /\ pc'[t] = "cx_fail") => slot # loc[t].orig]_vars
    /\ \A t \in Caller : (pc[t] \in CxLabels) ~> (pc[t] = "done" \/ crashed)

\* a compare_exchange returned after a failed CAS and a retry
C17_Witness ==
    \E t \in Thread :
        /\ pc[t] = "done" /\ arg[t].op = "compare_exchange"
        /\ loc[t].retried /\ result[t] \in Obj

(* -------------------------------- C18 ---------------------------------- *)
\* the labels at which raw is a pointer read from the slot that the method is
\* about to turn into a reference (load, exchange, compare_exchange)
ReadRaw == {"load_inc", "exch_ret", "cx_inc", "cx_fail"}

\* C18: while the AtomicObject exists the slot holds a non-null pointer to an
\* object that has not been deallocated, and so is every pointer that load
\* has read, exchange has swapped out or a failed CAS has reported.
C18_SlotNonNull ==
    ~dropped =>
        /\ slot # NULL /\ slot \notin freed
        /\ \A t \in Thread :
              pc[t] \in ReadRaw => (loc[t].raw # NULL /\ loc[t].raw \notin freed)

(* -------------------------------- C19 ---------------------------------- *)
\* the calls that take a pointer out of the slot: every caller makes one
\* call of store, exchange, compare_exchange or __clear__, steps interleaved
HandStep(t) ==
    \/ store_clone(t) \/ store_swap(t) \/ store_decref(t)
    \/ call_exchange(t) \/ exchange_swap(t) \/ exchange_return(t)
    \/ call_compare_exchange(t) \/ cx_load(t) \/ cx_incref(t) \/ cx_eq(t)
    \/ cx_cas(t) \/ cx_ok(t) \/ cx_fail(t)
    \/ clear_swap(t) \/ clear_decref(t)

NextHand == \E t \in Caller : HandStep(t)

SpecHand == Init /\ [][NextHand]_vars

\* every call has returned, the compare_exchange calls having swapped
Quiet ==
    \A t \in Thread :
        /\ pc[t] \in {"idle", "done"}
        /\ arg[t].op = "compare_exchange" => loc[t].swapped

\* C19: a reference the slot owned is handed on once: when the calls (store,
\* exchange, __clear__, compare_exchange that swapped) have returned, no object has more owners (the slot, the callers with what was
\* returned to them) than counted references, as it would if one reference
\* of the slot had been released or handed to a caller twice, or handed on
\* while the slot kept the pointer.
C19_TakenOnce ==
    Quiet => \A o \in Obj : Handles(o) <= rc[o]

(* -------------------------------- C20 ---------------------------------- *)
\* C20: the snapshot of compare_exchange is the pointer its last read of the
\* slot returned (the initial load, or what the failed CAS reported); a CAS
\* is attempted only on a snapshot that compared equal to expected, and it
\* swaps exactly when the slot holds that snapshot; a call that returns
\* without swapping returns its snapshot, which compared unequal to expected.
C20_FreshSnapshot ==
    /\ [][\A t \in Thread :
            /\ (pc[t] = "cx" /\ pc'[t] = "cx_inc") => loc'[t].raw = slot
            /\ (pc[t] = "cx_inc" /\ pc'[t] = "cx_eq") => loc'[t].orig = loc[t].raw
            /\ (pc[t] = "cx_cas" /\ pc'[t] # "cx_cas")
                  => /\ (pc'[t] = "cx_ok") = (slot = loc[t].orig)
                     /\ loc'[t].raw = slot
            /\ (pc[t] = "cx_fail" /\ pc'[t] = "cx_eq") => loc'[t].orig = loc[t].raw
            /\ (pc[t] = "cx_eq" /\ pc'[t] = "done" /\ result'[t] # ERR)
                  => /\ result'[t] = loc[t].orig
                     /\ HostEq(loc[t].orig, arg[t].e) = "false"]_vars
    /\ [](\A t \in Thread :
            pc[t] = "cx_cas" => HostEq(loc[t].orig, arg[t].e) = "true")

\* after a failed CAS the call returned the content another thread had
\* installed, which is what the slot holds
C20_Witness ==
    \E t \in Thread :
        /\ pc[t] = "done" /\ arg[t].op = "compare_exchange"
        /\ loc[t].retried /\ ~loc[t].swapped
        /\ result[t] \in Obj /\ slot = result[t]

====
